---- MODULE Spec2Model ----
(***************************************************************************)
(* Ledger and payment reconciliation of the WhatsApp / Tripay QRIS         *)
(* auto-order bot (src/main.py).                                           *)
(*                                                                         *)
(* The ledger is the three JSON files users.json, topups.json and          *)
(* stats.json; products.json is read only.  Two specifications share the   *)
(* state:                                                                  *)
(*   Spec        every request (a WhatsApp command, a Tripay callback) is  *)
(*               handled as one step.  This is the order of one asyncio    *)
(*               event loop: in every handler all ledger reads and writes  *)
(*               lie between two awaits (wa_webhook 245-246 down to the    *)
(*               first wa_send_text / httpx call, tripay_callback          *)
(*               517-538).                                                 *)
(*   SpecWorkers several server processes (uvicorn workers) handle         *)
(*               requests at the same time; each load_json and each        *)
(*               save_json of a file is one step, and nothing in the       *)
(*               source locks the files.                                   *)
(***************************************************************************)
EXTENDS Integers, Sequences, FiniteSets, TLC

\* ------------------------------------------------------------------ bounds

\* accepted topup requests (records written to topups.json) in one behaviour
MaxTopups == 2
\* OrderRecords per user
MaxOrders == 2
\* SpecWorkers: requests taken by the workers in one behaviour
MaxRequests == 5

\* ------------------------------------------------------- program constants

\* process_topup_request: if amount < 5000
MinTopup == 5000

\* ------------------------------------------------------------------ inputs

Phones == {"6281", "6282"}
\* value.contacts[0].profile.name
NameOf(phone) == "Kak"
\* uuid.uuid4().hex[:8] and hex[:6]: a random draw, nothing excludes a repeat
Suffixes == {"a1", "b2"}
\* parts[1] of "topup <amount>": below the minimum, and the minimum
TopupAmounts == {4999, 5000}
\* parts[1].upper() of "buynow <code>" and of "buyqr <code>"
Codes == {"BOX", "VIP", "NONE"}
QrCodes == {"BOX", "NONE"}
\* parts[2] of "buynow <code> <qty>" (1 when missing or not a number)
Qtys == {1, 2}
Statuses == {"PAID", "EXPIRED"}
\* the amount field of a callback body: {} when missing
CallbackAmounts == {{}, {99000}}
\* X-Callback-Signature: absent, equal to the expected HMAC, different
Signatures == {"none", "match", "mismatch"}

\* merchant_ref strings as tuples of their parts; "" and None are <<>>
NoRef == <<>>
TopupRef(phone, sfx) == <<"TOPUP", phone, sfx>>
BuyRef(code, phone, sfx) == <<"BUY", code, phone, sfx>>
TopupRefs == {TopupRef(p, s) : p \in Phones, s \in Suffixes}

\* products.json as process_buy_request and process_buy_qris_request read it:
\* code -> name, price
products ==
    [c \in {"BOX", "VIP"} |->
        IF c = "BOX" THEN [name |-> "Box", price |-> 5000]
                     ELSE [name |-> "Vip", price |-> 10000]]
\* the active flag of the data model's Product; no line of main.py reads it
active == [c \in DOMAIN products |-> c # "VIP"]

\* -------------------------------------------------------------- dictionaries

\* d[k] = v of a Python dict
Put(d, k, v) == [x \in (DOMAIN d) \cup {k} |-> IF x = k THEN v ELSE d[x]]
EmptyDict == [x \in {} |-> 0]

VARIABLES
    users,     \* users.json: phone -> [name, saldo, total_spent, orders]
    topups,    \* topups.json: merchant_ref -> [phone, name, amount, status]
    stats,     \* stats.json: [total_sold, total_amount, total_users]
    last,      \* the request handled last, with what was sent back
    created,   \* history: merchant_ref -> number of topup records stored under it
    credited,  \* history: merchant_ref -> number of balance credits made for it
    pc,        \* SpecWorkers: worker -> position in its handler
    loc,       \* SpecWorkers: worker -> local variables of its handler
    served     \* SpecWorkers: number of requests taken so far

vars == <<users, topups, stats, last, created, credited, pc, loc, served>>
ledger == <<users, topups, stats>>

\* ---------------------------------------------------------- user and stats

NewUser(name) == [name |-> name, saldo |-> 0, total_spent |-> 0, orders |-> <<>>]

\* get_or_create_user: the user record, creating it (and counting it in
\* stats.total_users) on first contact.  us, st are the files' contents.
get_or_create_user(us, st, phone, name) ==
    IF phone \notin DOMAIN us
    THEN [users |-> Put(us, phone, NewUser(name)),
          stats |-> [st EXCEPT !.total_users = @ + 1],
          user  |-> NewUser(name)]
    ELSE [users |-> us, stats |-> st, user |-> us[phone]]

\* update_user: users[phone] = data
update_user(us, phone, data) == Put(us, phone, data)

\* a count of the sale without its amount
add_stats_sold_count_only(st, amount) == [st EXCEPT !.total_sold = @ + 1]
\* add_stats_sold
add_stats_sold(st, amount) ==
    [st EXCEPT !.total_sold = @ + 1, !.total_amount = @ + amount]

\* ------------------------------------------------------------------ handlers
\* Each handler maps the ledger L = [users, topups, stats] to the ledger it
\* leaves and to what it sends: reply (the WhatsApp text, by kind), gateway
\* (the create-transaction call: "none", "ok", "fail"), ref (the merchant_ref
\* it generated or was given), stored / settled (the merchant_ref whose record
\* it wrote / credited, else NoRef) and response (the callback's success:
\* "true", "false", "error" for a 500 answer, and "-" for a command).

Result(L, reply, gateway, ref, stored, settled, response) ==
    [users |-> L.users, topups |-> L.topups, stats |-> L.stats,
     reply |-> reply, gateway |-> gateway, ref |-> ref,
     stored |-> stored, settled |-> settled, response |-> response]

\* nama_produk = product["name"] + (f" x{qty}" if qty > 1 else "")
nama_produk(product, qty) ==
    IF qty > 1 THEN <<product.name, "x", qty>> ELSE <<product.name>>

\* a topup without a minimum
below_minimum_never(amount) == FALSE
\* process_topup_request: if amount < 5000
below_minimum(amount) == amount < MinTopup

\* a topup whose record is written only once the gateway has answered 200
process_topup_request_store_after(L, phone, name, amount, sfx, gwOk) ==
    IF below_minimum(amount)
    THEN [users |-> L.users, topups |-> L.topups, stats |-> L.stats,
          reply |-> "min_topup", gateway |-> "none", ref |-> NoRef,
          stored |-> NoRef, settled |-> NoRef, response |-> "-"]
    ELSE LET merchant_ref == TopupRef(phone, sfx)
             rec == [phone |-> phone, name |-> name, amount |-> amount,
                     status |-> "PENDING"]
         IN  [users |-> L.users,
              topups |-> IF gwOk THEN Put(L.topups, merchant_ref, rec) ELSE L.topups,
              stats |-> L.stats,
              reply |-> IF gwOk THEN "topup_created" ELSE "none",
              gateway |-> IF gwOk THEN "ok" ELSE "fail",
              ref |-> merchant_ref,
              stored |-> IF gwOk THEN merchant_ref ELSE NoRef,
              settled |-> NoRef, response |-> "-"]
\* process_topup_request; gwOk: create_tripay_qris got status 200.  When it
\* did not, create_tripay_qris raises and wa_webhook's except swallows it:
\* no reply is sent, the record written before the call stays.
process_topup_request(L, phone, name, amount, sfx, gwOk) ==
    IF below_minimum(amount)
    THEN Result(L, "min_topup", "none", NoRef, NoRef, NoRef, "-")
    ELSE LET merchant_ref == TopupRef(phone, sfx)
             rec == [phone |-> phone, name |-> name, amount |-> amount,
                     status |-> "PENDING"]
             L1 == [L EXCEPT !.topups = Put(L.topups, merchant_ref, rec)]
         IN  IF gwOk
             THEN Result(L1, "topup_created", "ok", merchant_ref, merchant_ref, NoRef, "-")
             ELSE Result(L1, "none", "fail", merchant_ref, merchant_ref, NoRef, "-")

\* a total that forgets the quantity
total_price_unit(product, qty) == product.price
\* price = int(product["price"]) * qty
total_price(product, qty) == product.price * qty

\* a balance test that lets every purchase through
insufficient_never(user, price) == FALSE
\* if user["saldo"] < price
insufficient(user, price) == user.saldo < price

\* a debit that appends no OrderRecord
debit_unlisted(user, code, product, qty, price) ==
    [user EXCEPT !.saldo = @ - price, !.total_spent = @ + price]
\* a debit that leaves total_spent alone
debit_unrecorded(user, code, product, qty, price) ==
    [user EXCEPT !.saldo = @ - price,
                 !.orders = Append(@, [code |-> code,
                                       name |-> nama_produk(product, qty),
                                       price |-> price])]
\* the debit: saldo -= price, total_spent += price, orders.append(...)
debit(user, code, product, qty, price) ==
    [user EXCEPT !.saldo = @ - price,
                 !.total_spent = @ + price,
                 !.orders = Append(@, [code |-> code,
                                       name |-> nama_produk(product, qty),
                                       price |-> price])]

\* process_buy_request; user is the record wa_webhook got from
\* get_or_create_user
process_buy_request(L, phone, name, code, user, qty) ==
    IF code \notin DOMAIN products
    THEN Result(L, "not_found", "none", NoRef, NoRef, NoRef, "-")
    ELSE LET product == products[code]
             price == total_price(product, qty)
         IN  IF insufficient(user, price)
             THEN Result(L, "insufficient", "none", NoRef, NoRef, NoRef, "-")
             ELSE LET user1 == debit(user, code, product, qty, price)
                      L1 == [L EXCEPT !.users = update_user(L.users, phone, user1),
                                      !.stats = add_stats_sold(L.stats, price)]
                  IN  Result(L1, "bought", "none", NoRef, NoRef, NoRef, "-")

\* process_buy_qris_request: no record is written, only the gateway is called
process_buy_qris_request(L, phone, name, code, qty, sfx, gwOk) ==
    IF code \notin DOMAIN products
    THEN Result(L, "not_found", "none", NoRef, NoRef, NoRef, "-")
    ELSE LET merchant_ref == BuyRef(code, phone, sfx)
         IN  IF gwOk
             THEN Result(L, "qris_created", "ok", merchant_ref, NoRef, NoRef, "-")
             ELSE Result(L, "none", "fail", merchant_ref, NoRef, NoRef, "-")

\* a handler without the early return on a settled record
already_paid_never(top) == FALSE
\* if top.get("status") == "PAID": return
already_paid(top) == top.status = "PAID"

\* a credit of the amount the callback body carries, when it carries one
nominal_of_body(top, body) ==
    IF body.amount = {} THEN top.amount ELSE CHOOSE a \in body.amount : TRUE
\* nominal = int(top["amount"]); the body's amount is only printed
nominal_of(top, body) == top.amount

\* a settlement test that does not look at the status
stored_any_status(tops, body) == body.merchant_ref \in DOMAIN tops
\* top = topups.get(merchant_ref); if status == "PAID" and top
paid_and_stored(tops, body) ==
    body.status = "PAID" /\ body.merchant_ref \in DOMAIN tops

\* tripay_callback from "if not merchant_ref" on, when the send of the
\* notice returns; body = [status, merchant_ref, amount]
tripay_callback(L, body) ==
    IF body.merchant_ref = NoRef
    THEN Result(L, "none", "none", NoRef, NoRef, NoRef, "false")
    ELSE IF paid_and_stored(L.topups, body)
    THEN LET top == L.topups[body.merchant_ref]
             nominal == nominal_of(top, body)
         IN  IF already_paid(top)
             THEN Result(L, "none", "none", body.merchant_ref, NoRef, NoRef, "true")
             ELSE LET tops1 == Put(L.topups, body.merchant_ref,
                                   [top EXCEPT !.status = "PAID"])
                      g == get_or_create_user(L.users, L.stats, top.phone, top.name)
                      user1 == [g.user EXCEPT !.saldo = @ + nominal]
                      L1 == [users  |-> update_user(g.users, top.phone, user1),
                             topups |-> tops1,
                             stats  |-> g.stats]
                  IN  Result(L1, "topup_ok", "none", body.merchant_ref, NoRef,
                             body.merchant_ref, "true")
    ELSE Result(L, "none", "none", body.merchant_ref, NoRef, NoRef, "true")

\* the signature check of tripay_callback: a warning is printed, nothing else
signature_warning(sig) == sig # "none" /\ sig # "match"

\* a handler that turns a callback with a mismatching signature away
signature_blocks_mismatch(sig) == sig # "none" /\ sig # "match"
\* after the warning there is no return: no signature ends the handler
signature_blocks(sig) == FALSE

\* tripay_callback, the whole route.  waOk: the wa_send_text of the
\* settlement notice returned; when it raises (httpx cannot reach the
\* WhatsApp API) nothing catches it and the server answers 500 ("error"),
\* after the ledger was written.
tripay_callback_request(L, body, sig, waOk) ==
    IF signature_blocks(sig)
    THEN Result(L, "none", "none", body.merchant_ref, NoRef, NoRef, "false")
    ELSE LET res == tripay_callback(L, body)
         IN  IF res.reply = "topup_ok" /\ ~waOk
             THEN [res EXCEPT !.response = "error"]
             ELSE res

\* handle_command, on the parsed text; cmd = [op, amount, code, qty], env =
\* [sfx, gwOk] is what the command draws from outside (uuid4, the gateway)
handle_command(L, phone, name, cmd, user, env) ==
    CASE cmd.op = "topup" ->
            process_topup_request(L, phone, name, cmd.amount, env.sfx, env.gwOk)
      [] cmd.op = "buynow" ->
            process_buy_request(L, phone, name, cmd.code, user, cmd.qty)
      [] cmd.op = "buyqr" ->
            process_buy_qris_request(L, phone, name, cmd.code, cmd.qty, env.sfx, env.gwOk)
      [] OTHER -> Result(L, cmd.op, "none", NoRef, NoRef, NoRef, "-")

\* wa_webhook for a text message: get_or_create_user, then handle_command
wa_webhook(L, phone, cmd, env) ==
    LET name == NameOf(phone)
        g == get_or_create_user(L.users, L.stats, phone, name)
        L1 == [L EXCEPT !.users = g.users, !.stats = g.stats]
    IN  handle_command(L1, phone, name, cmd, g.user, env)

\* ------------------------------------------------------------ specification

Ledger == [users |-> users, topups |-> topups, stats |-> stats]

\* SpecWorkers: the server processes
Workers == {"w1", "w2"}

Sum(f) ==
    LET RECURSIVE S(_)
        S(D) == IF D = {} THEN 0
                ELSE LET x == CHOOSE y \in D : TRUE IN f[x] + S(D \ {x})
    IN  S(DOMAIN f)

NoCmd == [op |-> "-", amount |-> 0, code |-> "-", qty |-> 0]
NoBody == [status |-> "-", merchant_ref |-> NoRef, amount |-> {}]
\* what a command draws from outside: the uuid4 digits and whether the
\* gateway answered 200; NoEnv for a command that reaches neither
NoEnv == [sfx |-> "-", gwOk |-> TRUE]
Envs == [sfx : Suffixes, gwOk : BOOLEAN]

\* the request handled, with what the handler sent back
Handled(kind, phone, cmd, body, sig, res) ==
    [kind |-> kind, phone |-> phone, cmd |-> cmd, body |-> body, sig |-> sig,
     warning |-> signature_warning(sig),
     reply |-> res.reply, gateway |-> res.gateway, ref |-> res.ref,
     response |-> res.response]

\* the locals of a worker between requests
NoLoc ==
    [kind |-> "-", phone |-> "-", name |-> "-", cmd |-> NoCmd, body |-> NoBody,
     env |-> NoEnv, before |-> NewUser("-"), pending |-> FALSE,
     users_l |-> EmptyDict, topups_l |-> EmptyDict, stats_l |-> EmptyDict,
     user |-> NewUser("-"), price |-> 0, ref |-> NoRef,
     reply |-> "none", gateway |-> "none", response |-> "-"]

Count(h, ref) == IF ref = NoRef THEN h ELSE [h EXCEPT ![ref] = @ + 1]

\* the files and the history after a handler that ran as one step
Commit(res) ==
    /\ users' = res.users
    /\ topups' = res.topups
    /\ stats' = res.stats
    /\ created' = Count(created, res.stored)
    /\ credited' = Count(credited, res.settled)

Init ==
    /\ users = EmptyDict
    /\ topups = EmptyDict
    /\ stats = [total_sold |-> 0, total_amount |-> 0, total_users |-> 0]
    /\ last = Handled("init", "-", NoCmd, NoBody, "none",
                      Result(Ledger, "none", "none", NoRef, NoRef, NoRef, "-"))
    /\ created = [r \in TopupRefs |-> 0]
    /\ credited = [r \in TopupRefs |-> 0]
    /\ pc = [w \in Workers |-> "idle"]
    /\ loc = [w \in Workers |-> NoLoc]
    /\ served = 0

\* a text message with a command (wa_webhook, one step)
Command(phone, cmd, env) ==
    LET res == wa_webhook(Ledger, phone, cmd, env)
    IN  /\ Commit(res)
        /\ last' = Handled("command", phone, cmd, NoBody, "none", res)
        /\ UNCHANGED <<pc, loc, served>>

\* menu, saldo, produk, a category number, anything else: a reply only
WaInfo(phone, op) ==
    Command(phone, [NoCmd EXCEPT !.op = op], NoEnv)

\* "topup <amount>"
WaTopup(phone, amount, env) ==
    /\ (env = NoEnv) <=> below_minimum(amount)
    /\ ~below_minimum(amount) => Sum(created) < MaxTopups
    /\ Command(phone, [NoCmd EXCEPT !.op = "topup", !.amount = amount], env)

\* "buynow <code> [qty]"
WaBuyNow(phone, code, qty) ==
    /\ phone \in DOMAIN users => Len(users[phone].orders) < MaxOrders
    /\ Command(phone, [NoCmd EXCEPT !.op = "buynow", !.code = code, !.qty = qty],
               NoEnv)

\* "buyqr <code> [qty]"
WaBuyQr(phone, code, qty, env) ==
    /\ (env = NoEnv) <=> (code \notin DOMAIN products)
    /\ Command(phone, [NoCmd EXCEPT !.op = "buyqr", !.code = code, !.qty = qty], env)

\* POST /tripay/callback (tripay_callback, one step)
TripayCallback(body, sig, waOk) ==
    LET res == tripay_callback_request(Ledger, body, sig, waOk)
    IN  /\ ~waOk => res.reply = "topup_ok"
        /\ Commit(res)
        /\ last' = Handled("callback", "-", NoCmd, body, sig, res)
        /\ UNCHANGED <<pc, loc, served>>

InfoOps == {"menu"}
\* callback bodies: for every reference a topup can be stored under, and for
\* a buyqr reference and a missing one (never stored)
Bodies ==
    [status : Statuses, merchant_ref : TopupRefs, amount : CallbackAmounts]
    \cup [status : Statuses, merchant_ref : {BuyRef("BOX", "6281", "a1"), NoRef},
          amount : {{}}]

Next ==
    \/ \E p \in Phones, op \in InfoOps : WaInfo(p, op)
    \/ \E p \in Phones, a \in TopupAmounts, e \in Envs \cup {NoEnv} :
          WaTopup(p, a, e)
    \/ \E p \in Phones, c \in Codes, q \in Qtys : WaBuyNow(p, c, q)
    \/ \E p \in Phones, c \in QrCodes, q \in Qtys, e \in Envs \cup {NoEnv} :
          WaBuyQr(p, c, q, e)
    \/ \E b \in Bodies, sig \in Signatures, waOk \in BOOLEAN :
          TripayCallback(b, sig, waOk)

Spec == Init /\ [][Next]_vars

\* ------------------------------------------------------------- SpecWorkers
\* The same handlers, one file access per step.  A worker's locals hold what
\* the handler has read (users_l, topups_l, stats_l: the dict a load_json
\* returned, changed in place until it is saved).

Goto(w, p, l) ==
    /\ pc' = [pc EXCEPT ![w] = p]
    /\ loc' = [loc EXCEPT ![w] = l]

\* the handler has returned; its file snapshots are dead
Finished(l, reply, gateway, response) ==
    [l EXCEPT !.reply = reply, !.gateway = gateway, !.response = response,
              !.users_l = EmptyDict, !.topups_l = EmptyDict, !.stats_l = EmptyDict,
              !.user = NoLoc.user]

\* the user record a request is about, as the files have it when the request
\* arrives
Before(phone) == IF phone \in DOMAIN users THEN users[phone] ELSE NewUser(NameOf(phone))

\* wa_webhook up to get_or_create_user
AcceptCommand(w, phone, cmd, env) ==
    /\ pc[w] = "idle"
    /\ served < MaxRequests
    /\ served' = served + 1
    /\ cmd.op = "topup" =>
          /\ (env = NoEnv) <=> below_minimum(cmd.amount)
          /\ ~below_minimum(cmd.amount) => Sum(created) < MaxTopups
    /\ cmd.op \notin {"topup", "buynow"} => env = NoEnv
    /\ cmd.op = "buynow" =>
          /\ env = NoEnv
          /\ phone \in DOMAIN users => Len(users[phone].orders) < MaxOrders
    /\ Goto(w, "users_load",
            [NoLoc EXCEPT !.kind = "command", !.phone = phone, !.name = NameOf(phone),
                          !.cmd = cmd, !.env = env, !.before = Before(phone)])
    /\ UNCHANGED <<users, topups, stats, last, created, credited>>

\* tripay_callback up to "if not merchant_ref"
AcceptCallback(w, body) ==
    /\ pc[w] = "idle"
    /\ served < MaxRequests
    /\ served' = served + 1
    /\ LET r == body.merchant_ref
           stored == r \in DOMAIN topups
           l == [NoLoc EXCEPT
                   !.kind = "callback", !.body = body, !.ref = r,
                   !.before = IF stored THEN Before(topups[r].phone) ELSE NewUser("-"),
                   !.pending = stored /\ topups[r].status = "PENDING"]
       IN  IF r = NoRef
           THEN Goto(w, "done", Finished(l, "none", "none", "false"))
           ELSE Goto(w, "cb_load", l)
    /\ UNCHANGED <<users, topups, stats, last, created, credited>>

\* what follows get_or_create_user, which returned user: the command's checks
\* (handle_command, process_*_request up to their first file access) or the
\* callback's credit
after_user(l, user) ==
    CASE l.kind = "callback" ->
            [pc |-> "upd_load",
             loc |-> [l EXCEPT !.user = [user EXCEPT !.saldo = @ + l.price]]]
      [] l.kind = "command" /\ l.cmd.op = "topup" ->
            IF below_minimum(l.cmd.amount)
            THEN [pc |-> "done", loc |-> Finished(l, "min_topup", "none", "-")]
            ELSE [pc |-> "tp_load",
                  loc |-> [l EXCEPT !.ref = TopupRef(l.phone, l.env.sfx), !.user = user]]
      [] l.kind = "command" /\ l.cmd.op = "buynow" ->
            IF l.cmd.code \notin DOMAIN products
            THEN [pc |-> "done", loc |-> Finished(l, "not_found", "none", "-")]
            ELSE LET product == products[l.cmd.code]
                     price == total_price(product, l.cmd.qty)
                 IN  IF insufficient(user, price)
                     THEN [pc |-> "done", loc |-> Finished(l, "insufficient", "none", "-")]
                     ELSE [pc |-> "upd_load",
                           loc |-> [l EXCEPT
                                      !.price = price,
                                      !.user = debit(user, l.cmd.code, product,
                                                     l.cmd.qty, price)]]
      [] OTHER -> [pc |-> "done", loc |-> Finished(l, l.cmd.op, "none", "-")]

\* get_or_create_user: users = load_json(USERS_FILE, {})
UsersLoad(w) ==
    /\ pc[w] = "users_load"
    /\ LET l == loc[w]
       IN  IF l.phone \notin DOMAIN users
           THEN Goto(w, "goc_stats_load",
                     [l EXCEPT !.users_l = Put(users, l.phone, NewUser(l.name))])
           ELSE LET n == after_user(l, users[l.phone]) IN Goto(w, n.pc, n.loc)
    /\ UNCHANGED <<users, topups, stats, last, created, credited, served>>

\* get_or_create_user: stats = load_json(STATS_FILE, ...); total_users + 1
GocStatsLoad(w) ==
    /\ pc[w] = "goc_stats_load"
    /\ Goto(w, "goc_stats_save",
            [loc[w] EXCEPT !.stats_l = [stats EXCEPT !.total_users = @ + 1]])
    /\ UNCHANGED <<users, topups, stats, last, created, credited, served>>

\* get_or_create_user: save_json(STATS_FILE, stats)
GocStatsSave(w) ==
    /\ pc[w] = "goc_stats_save"
    /\ stats' = loc[w].stats_l
    /\ Goto(w, "goc_users_save", [loc[w] EXCEPT !.stats_l = EmptyDict])
    /\ UNCHANGED <<users, topups, last, created, credited, served>>

\* get_or_create_user: save_json(USERS_FILE, users); return users[phone]
GocUsersSave(w) ==
    /\ pc[w] = "goc_users_save"
    /\ users' = loc[w].users_l
    /\ LET l == loc[w]
           n == after_user([l EXCEPT !.users_l = EmptyDict], l.users_l[l.phone])
       IN  Goto(w, n.pc, n.loc)
    /\ UNCHANGED <<topups, stats, last, created, credited, served>>

\* process_topup_request: topups = load_json(TOPUPS_FILE, {}); topups[ref] = ...
TpLoad(w) ==
    /\ pc[w] = "tp_load"
    /\ LET l == loc[w]
           rec == [phone |-> l.phone, name |-> l.name, amount |-> l.cmd.amount,
                   status |-> "PENDING"]
       IN  Goto(w, "tp_save", [l EXCEPT !.topups_l = Put(topups, l.ref, rec)])
    /\ UNCHANGED <<users, topups, stats, last, created, credited, served>>

\* process_topup_request: save_json(TOPUPS_FILE, topups)
TpSave(w) ==
    /\ pc[w] = "tp_save"
    /\ topups' = loc[w].topups_l
    /\ created' = Count(created, loc[w].ref)
    /\ Goto(w, "tp_gateway", [loc[w] EXCEPT !.topups_l = EmptyDict])
    /\ UNCHANGED <<users, stats, last, credited, served>>

\* process_topup_request: await create_tripay_qris(...), then the reply
TpGateway(w) ==
    /\ pc[w] = "tp_gateway"
    /\ LET l == loc[w]
       IN  IF l.env.gwOk
           THEN Goto(w, "done", Finished(l, "topup_created", "ok", "-"))
           ELSE Goto(w, "done", Finished(l, "none", "fail", "-"))
    /\ UNCHANGED <<users, topups, stats, last, created, credited, served>>

\* update_user: users = load_json(USERS_FILE, {}); users[phone] = data
UpdLoad(w) ==
    /\ pc[w] = "upd_load"
    /\ Goto(w, "upd_save",
            [loc[w] EXCEPT !.users_l = update_user(users, loc[w].phone, loc[w].user)])
    /\ UNCHANGED <<users, topups, stats, last, created, credited, served>>

\* update_user: save_json(USERS_FILE, users); the callback then replies (its
\* wa_send_text returning), the purchase goes on to add_stats_sold
UpdSave(w) ==
    /\ pc[w] = "upd_save"
    /\ users' = loc[w].users_l
    /\ LET l == [loc[w] EXCEPT !.users_l = EmptyDict]
       IN  IF l.kind = "callback"
           THEN /\ credited' = Count(credited, l.ref)
                /\ Goto(w, "done", Finished(l, "topup_ok", "none", "true"))
           ELSE /\ credited' = credited
                /\ Goto(w, "st_load", l)
    /\ UNCHANGED <<topups, stats, last, created, served>>

\* add_stats_sold: stats = load_json(STATS_FILE, ...); the two additions
StLoad(w) ==
    /\ pc[w] = "st_load"
    /\ Goto(w, "st_save",
            [loc[w] EXCEPT !.stats_l = add_stats_sold(stats, loc[w].price)])
    /\ UNCHANGED <<users, topups, stats, last, created, credited, served>>

\* add_stats_sold: save_json(STATS_FILE, stats); then the reply
StSave(w) ==
    /\ pc[w] = "st_save"
    /\ stats' = loc[w].stats_l
    /\ Goto(w, "done", Finished(loc[w], "bought", "none", "-"))
    /\ UNCHANGED <<users, topups, last, created, credited, served>>

\* tripay_callback: topups = load_json(TOPUPS_FILE, {}); top = topups.get(ref)
\* and the tests on status; top["status"] = "PAID" in the loaded dict
CbLoad(w) ==
    /\ pc[w] = "cb_load"
    /\ LET l == loc[w]
           r == l.body.merchant_ref
       IN  IF paid_and_stored(topups, l.body)
           THEN LET top == topups[r]
                IN  IF already_paid(top)
                    THEN Goto(w, "done", Finished(l, "none", "none", "true"))
                    ELSE Goto(w, "cb_save",
                              [l EXCEPT
                                 !.phone = top.phone, !.name = top.name,
                                 !.price = nominal_of(top, l.body),
                                 !.topups_l = Put(topups, r, [top EXCEPT !.status = "PAID"])])
           ELSE Goto(w, "done", Finished(l, "none", "none", "true"))
    /\ UNCHANGED <<users, topups, stats, last, created, credited, served>>

\* tripay_callback: save_json(TOPUPS_FILE, topups)
CbSave(w) ==
    /\ pc[w] = "cb_save"
    /\ topups' = loc[w].topups_l
    /\ Goto(w, "users_load", [loc[w] EXCEPT !.topups_l = EmptyDict])
    /\ UNCHANGED <<users, stats, last, created, credited, served>>

\* the response is sent; the worker takes the next request
Return(w) ==
    /\ pc[w] = "done"
    /\ Goto(w, "idle", NoLoc)
    /\ UNCHANGED <<users, topups, stats, last, created, credited, served>>

\* the requests of SpecWorkers: one user's commands and the callbacks for
\* that user's topups
WorkerPhones == {"6281"}
WorkerCmds ==
    {[NoCmd EXCEPT !.op = "menu"]}
    \cup {[NoCmd EXCEPT !.op = "topup", !.amount = MinTopup]}
    \cup {[NoCmd EXCEPT !.op = "buynow", !.code = "BOX", !.qty = 1]}
WorkerBodies ==
    [status : {"PAID"},
     merchant_ref : {TopupRef(p, x) : p \in WorkerPhones, x \in Suffixes},
     amount : {{}}]
    \cup [status : {"EXPIRED"}, merchant_ref : {TopupRef("6281", "a1"), NoRef},
          amount : {{}}]

NextWorkers ==
    \E w \in Workers :
        \/ \E p \in WorkerPhones, c \in WorkerCmds, e \in Envs \cup {NoEnv} :
              AcceptCommand(w, p, c, e)
        \/ \E b \in WorkerBodies : AcceptCallback(w, b)
        \/ UsersLoad(w) \/ GocStatsLoad(w) \/ GocStatsSave(w) \/ GocUsersSave(w)
        \/ TpLoad(w) \/ TpSave(w) \/ TpGateway(w)
        \/ UpdLoad(w) \/ UpdSave(w) \/ StLoad(w) \/ StSave(w)
        \/ CbLoad(w) \/ CbSave(w)
        \/ Return(w)

SpecWorkers == Init /\ [][NextWorkers]_vars

\* ------------------------------------------------------------------ claims

Saldo(us, p) == IF p \in DOMAIN us THEN us[p].saldo ELSE 0
Spent(us, p) == IF p \in DOMAIN us THEN us[p].total_spent ELSE 0
Orders(us, p) == IF p \in DOMAIN us THEN us[p].orders ELSE <<>>

\* the step handles a callback / the command op
IsCallback == last'.kind = "callback"
IsCommand(op) == last'.kind = "command" /\ last'.cmd.op = op

\* the users file but for the record of p
OthersUnchanged(p) ==
    /\ DOMAIN users \ {p} = DOMAIN users' \ {p}
    /\ \A q \in DOMAIN users \ {p} : users'[q] = users[q]

\* what wa_webhook's get_or_create_user alone leaves: nothing changed for a
\* known phone, a fresh record counted in total_users for a new one
OnlyFirstContact(p) ==
    /\ topups' = topups
    /\ IF p \in DOMAIN users
       THEN users' = users /\ stats' = stats
       ELSE /\ users' = Put(users, p, NewUser(NameOf(p)))
            /\ stats' = [stats EXCEPT !.total_users = @ + 1]

C2_BalanceNonNegative ==
    \A p \in DOMAIN users : users[p].saldo >= 0

\* a purchase that took the whole balance
C2_Witness ==
    /\ last.kind = "command" /\ last.cmd.op = "buynow" /\ last.reply = "bought"
    /\ users[last.phone].saldo = 0
    /\ users[last.phone].total_spent > 0

\* C3: a settlement changes the owner's balance by the amount stored in the
\* transaction, whatever amount the callback body carries; a callback changes
\* no balance in any other way.
C3_CreditIsStoredAmount ==
    [][IsCallback
       => \A p \in Phones :
            LET r == last'.body.merchant_ref
                settles == /\ last'.body.status = "PAID"
                           /\ r \in DOMAIN topups
                           /\ topups[r].status = "PENDING"
                           /\ topups[r].phone = p
            IN  Saldo(users', p) - Saldo(users, p)
                  = IF settles THEN topups[r].amount ELSE 0]_vars

\* a settlement whose callback carried another amount than the stored one,
\* or none
C3_Witness ==
    /\ last.kind = "callback" /\ last.reply = "topup_ok"
    /\ last.body.amount # {topups[last.ref].amount}
    /\ Saldo(users, topups[last.ref].phone) = topups[last.ref].amount

\* C4: two PAID callbacks for one merchant_ref handled at the same time (both
\* arrived while the record was Pending and the owner's record was the
\* same) credit the owner once: when both have answered, the balance is the
\* balance before plus the stored amount.
C4_ConcurrentCallbacksCreditOnce ==
    \A w1, w2 \in Workers :
        (/\ w1 # w2
         /\ pc[w1] = "done" /\ pc[w2] = "done"
         /\ loc[w1].kind = "callback" /\ loc[w2].kind = "callback"
         /\ loc[w1].body.status = "PAID" /\ loc[w2].body.status = "PAID"
         /\ loc[w1].ref = loc[w2].ref
         /\ loc[w1].pending /\ loc[w2].pending
         /\ loc[w1].before = loc[w2].before
         /\ loc[w1].ref \in DOMAIN topups)
        => LET top == topups[loc[w1].ref]
           IN  Saldo(users, top.phone) = loc[w1].before.saldo + top.amount

\* C5: a balance-funded purchase and a settlement for the same user handled
\* at the same time (both arrived on the same user record) lose no update:
\* when both have answered, balance = balance before + topup amount -
\* purchase total, and the OrderRecord and the total_spent increase are there.
C5_ConcurrentDebitAndCredit ==
    \A w1, w2 \in Workers :
        (/\ pc[w1] = "done" /\ pc[w2] = "done"
         /\ loc[w1].kind = "command" /\ loc[w1].cmd.op = "buynow"
         /\ loc[w1].reply = "bought"
         /\ loc[w2].kind = "callback" /\ loc[w2].reply = "topup_ok"
         /\ loc[w2].phone = loc[w1].phone
         /\ loc[w1].before = loc[w2].before)
        => LET p == loc[w1].phone
               b == loc[w1].before
           IN  /\ Saldo(users, p) = b.saldo + loc[w2].price - loc[w1].price
               /\ Spent(users, p) = b.total_spent + loc[w1].price
               /\ Len(Orders(users, p)) = Len(b.orders) + 1

\* C6: a balance-funded purchase of a catalog product whose total
\* unit_price * qty the balance covers debits the total, adds it to
\* total_spent, appends one OrderRecord with price_paid = total, and adds 1 to
\* total_sold and the total to total_amount.
C6_PurchaseEffect ==
    [][(IsCommand("buynow") /\ last'.cmd.code \in DOMAIN products
           /\ Saldo(users, last'.phone)
                >= products[last'.cmd.code].price * last'.cmd.qty)
       => LET p == last'.phone
              total == products[last'.cmd.code].price * last'.cmd.qty
          IN  /\ last'.reply = "bought"
              /\ users'[p].saldo = Saldo(users, p) - total
              /\ users'[p].total_spent = Spent(users, p) + total
              /\ Len(users'[p].orders) = Len(Orders(users, p)) + 1
              /\ SubSeq(users'[p].orders, 1, Len(Orders(users, p))) = Orders(users, p)
              /\ users'[p].orders[Len(users'[p].orders)].price = total
              /\ users'[p].orders[Len(users'[p].orders)].code = last'.cmd.code
              /\ stats'.total_sold = stats.total_sold + 1
              /\ stats'.total_amount = stats.total_amount + total
              /\ OthersUnchanged(p)
              /\ topups' = topups]_vars

\* a purchase of two units went through
C6_Witness ==
    /\ last.kind = "command" /\ last.cmd.op = "buynow" /\ last.reply = "bought"
    /\ last.cmd.qty = 2
    /\ Len(users[last.phone].orders) = 1
    /\ stats.total_sold = 1

\* C7: a balance-funded purchase whose total exceeds the balance is rejected
\* and mutates nothing: users, transactions and stats stay as they are (for a
\* phone seen for the first time, as get_or_create_user leaves them).
C7_InsufficientNoMutation ==
    [][(IsCommand("buynow") /\ last'.cmd.code \in DOMAIN products
           /\ Saldo(users, last'.phone)
                < products[last'.cmd.code].price * last'.cmd.qty)
       => /\ last'.reply = "insufficient"
          /\ OnlyFirstContact(last'.phone)]_vars

\* a user with money, but not enough, was turned down
C7_Witness ==
    /\ last.kind = "command" /\ last.cmd.op = "buynow"
    /\ last.reply = "insufficient"
    /\ users[last.phone].saldo > 0

\* C8: a balance-funded purchase of a code that is not in the catalog or
\* whose product is inactive fails and mutates nothing: no debit, no
\* OrderRecord, no change of the stats.
C8_AbsentOrInactiveRejected ==
    [][(IsCommand("buynow")
           /\ (last'.cmd.code \notin DOMAIN products
                 \/ ~active[last'.cmd.code]))
       => /\ last'.reply # "bought"
          /\ OnlyFirstContact(last'.phone)]_vars

\* C9: no merchant_ref is generated twice: the reference a topup generates
\* was never stored before, so no topup is stored over an existing record,
\* and a reference generated by a topup or a QRIS purchase differs from the
\* one the request before it generated.
C9_RefsNeverReused ==
    [][(last'.kind = "command" /\ last'.ref # NoRef)
       => /\ last.kind = "command" => last'.ref # last.ref
          /\ IsCommand("topup") => /\ last'.ref \notin DOMAIN topups
                                   /\ created[last'.ref] = 0]_vars

\* C10: a Paid record stays Paid, and only the callback handler changes the
\* status of an existing record.
C10_PaidIsFinal ==
    [][\A r \in DOMAIN topups :
          /\ r \in DOMAIN topups'
          /\ topups[r].status = "PAID" => topups'[r].status = "PAID"
          /\ topups'[r].status # topups[r].status => IsCallback]_vars

\* the sum of the prices of a list of OrderRecords
SumPrices(orders) ==
    LET RECURSIVE S(_)
        S(n) == IF n = 0 THEN 0 ELSE orders[n].price + S(n - 1)
    IN  S(Len(orders))

\* the amounts of the Paid transactions of phone p, summed
PaidSum(tops, p) ==
    LET RECURSIVE S(_)
        S(D) == IF D = {} THEN 0
                ELSE LET r == CHOOSE y \in D : TRUE
                     IN  (IF tops[r].phone = p /\ tops[r].status = "PAID"
                          THEN tops[r].amount ELSE 0) + S(D \ {r})
    IN  S(DOMAIN tops)

\* C11: a topup below the minimum of 5000 is turned down with no record
\* written and no gateway call, and every record in the store has an amount
\* of at least 5000.
C11_MinimumTopup ==
    [][/\ (IsCommand("topup") /\ last'.cmd.amount < 5000)
          => /\ last'.reply = "min_topup"
             /\ last'.gateway = "none"
             /\ OnlyFirstContact(last'.phone)
       /\ \A r \in DOMAIN topups' : topups'[r].amount >= 5000]_vars

\* a topup of 4999 was turned down while a topup of 5000 is in the store
C11_Witness ==
    /\ last.kind = "command" /\ last.cmd.op = "topup" /\ last.cmd.amount = 4999
    /\ last.reply = "min_topup"
    /\ \E r \in DOMAIN topups : topups[r].phone = last.phone

\* C12: every user's total_spent is the sum of the prices of that user's
\* OrderRecords.
C12_SpentIsSumOfOrders ==
    \A p \in DOMAIN users : users[p].total_spent = SumPrices(users[p].orders)

\* a user with two orders
C12_Witness ==
    \E p \in DOMAIN users :
        /\ Len(users[p].orders) = 2
        /\ users[p].total_spent = 10000
        /\ users[p].saldo = 0

\* C13: the callback answers success false exactly when the payload has no
\* merchant_ref, and success true for every payload that has one.
C13_ResponseFalseIffNoRef ==
    [][IsCallback
       => /\ last'.response = "false" <=> last'.body.merchant_ref = NoRef
          /\ last'.body.merchant_ref # NoRef => last'.response = "true"]_vars

\* C14: for the same ledger and the same payload a callback with a matching
\* signature, with a mismatching one and with none write the same files and
\* answer the same, and a mismatch does not keep a Pending record from being
\* settled.
C14_SignatureWithoutEffect ==
    \A b \in Bodies, waOk \in BOOLEAN :
        /\ \A sig \in Signatures :
              tripay_callback_request(Ledger, b, sig, waOk)
                = tripay_callback_request(Ledger, b, "none", waOk)
        /\ (/\ b.status = "PAID" /\ b.merchant_ref \in DOMAIN topups
            /\ topups[b.merchant_ref].status = "PENDING")
           => tripay_callback_request(Ledger, b, "mismatch", waOk).settled
                = b.merchant_ref

\* a callback with a mismatching signature settled a topup
C14_Witness ==
    /\ last.kind = "callback" /\ last.sig = "mismatch" /\ last.warning
    /\ last.reply = "topup_ok"
    /\ topups[last.ref].status = "PAID"
    /\ Saldo(users, topups[last.ref].phone) >= topups[last.ref].amount

\* C15: the PAID callback for the merchant_ref a buyqr has just created adds
\* 1 to total_sold and the purchase amount to total_amount, and a PAID
\* callback repeated for it adds nothing.
C15_QrisPurchaseCounted ==
    [][(IsCallback /\ last'.body.status = "PAID" /\ last'.body.merchant_ref # NoRef
           /\ last'.body.merchant_ref = last.ref)
       => /\ (last.kind = "command" /\ last.cmd.op = "buyqr" /\ last.gateway = "ok")
             => stats' = add_stats_sold(stats, products[last.cmd.code].price
                                                 * last.cmd.qty)
          /\ (last.kind = "callback" /\ last.body.status = "PAID")
             => stats' = stats]_vars

\* C16: a callback without a merchant_ref, or for a merchant_ref nothing is
\* stored under, or with a status other than PAID leaves users, transactions
\* and stats as they are.
C16_IneffectiveCallbackNoMutation ==
    [][(IsCallback
           /\ (\/ last'.body.merchant_ref = NoRef
               \/ last'.body.merchant_ref \notin DOMAIN topups
               \/ last'.body.status # "PAID"))
       => users' = users /\ topups' = topups /\ stats' = stats]_vars

\* an EXPIRED callback came for a Pending topup, which is Pending still
C16_Witness ==
    /\ last.kind = "callback" /\ last.body.status = "EXPIRED"
    /\ last.ref \in DOMAIN topups
    /\ topups[last.ref].status = "PENDING"
    /\ last.response = "true"

\* C17: a topup that reaches the gateway has its record in the store as
\* Pending, with its phone and amount, whether the gateway call succeeds or
\* fails, and no step removes a record from the store.
C17_PendingStoredBeforeGateway ==
    [][/\ (IsCommand("topup") /\ last'.gateway # "none")
          => /\ last'.ref \in DOMAIN topups'
             /\ topups'[last'.ref] = [phone |-> last'.phone,
                                      name |-> NameOf(last'.phone),
                                      amount |-> last'.cmd.amount,
                                      status |-> "PENDING"]
             /\ created'[last'.ref] = created[last'.ref] + 1
       /\ DOMAIN topups \subseteq DOMAIN topups']_vars

\* the gateway call of a topup failed and the record is in the store
C17_Witness ==
    /\ last.kind = "command" /\ last.cmd.op = "topup" /\ last.gateway = "fail"
    /\ last.ref \in DOMAIN topups
    /\ topups[last.ref].status = "PENDING"
    /\ created[last.ref] = 1

\* C18: when the gateway call of a topup or a buyqr fails, the sender is sent
\* a reply saying that the transaction could not be created.
C18_GatewayFailureReply ==
    [][(last'.kind = "command" /\ last'.cmd.op \in {"topup", "buyqr"}
           /\ last'.gateway = "fail")
       => last'.reply = "failed"]_vars

\* C19: for every user, balance + total_spent is the sum of the amounts of
\* the Paid transactions of that user.
C19_MoneyConserved ==
    \A p \in Phones : Saldo(users, p) + Spent(users, p) = PaidSum(topups, p)

\* C20: total_users is the number of user records, total_sold the number of
\* OrderRecords of all users, total_amount the sum of total_spent of all
\* users.
C20_StatsAreAggregate ==
    /\ stats.total_users = Cardinality(DOMAIN users)
    /\ stats.total_sold = Sum([p \in DOMAIN users |-> Len(users[p].orders)])
    /\ stats.total_amount = Sum([p \in DOMAIN users |-> users[p].total_spent])

\* two users, both with purchases
C20_Witness ==
    /\ Cardinality(DOMAIN users) = 2
    /\ \A p \in DOMAIN users : Len(users[p].orders) >= 1
    /\ stats.total_sold >= 2 /\ stats.total_amount >= 10000

====
